---- MODULE Spec2Model ----
(***************************************************************************)
(* FlickrScraper (src/flickrscraper.py): ResponseHandler, the callback     *)
(* that admits intercepted image responses, and main, the control loop     *)
(* that scrolls the search page until enough images were admitted or       *)
(* patience ran out.                                                       *)
(*                                                                         *)
(* The program uses playwright.sync_api: the control loop and the response *)
(* callbacks share one thread.  A callback starts or resumes only while    *)
(* some sync call of the browser is in progress (page.goto, the waits,     *)
(* evaluate, query_selector, click, response.body, browser.close), and the *)
(* code between two such calls runs without interruption.  One action of   *)
(* this model is therefore the return of one browser call together with    *)
(* the code that follows it up to the next browser call.                   *)
(***************************************************************************)
EXTENDS Integers, Sequences, FiniteSets, TLC

\* ------------------------------------------------------------------ bounds
MaxDim == 4        \* image widths and heights range over 1..MaxDim
MaxResponses == 2  \* responses the page delivers in one session
MaxTarget == 1     \* number_of_images ranges over 0..MaxTarget
MaxPatience == 2   \* patience ranges over 0..MaxPatience

VARIABLES
    number_of_images,        \* main's parameters, fixed for the session
    patience,
    seed,
    min_image_size,
    max_image_size,
    pc,                      \* the browser call main is in, or how it ended
    error,                   \* the exception that ended main, "none" if none
    browser,                 \* "open" or "closed"
    done,
    patience_counter,
    current_scrape_counter,
    rng,                     \* state of the generator made at line 80
    scraped_image_hashes,
    files,                   \* the save directory: file name -> content
    in_body,                 \* callbacks suspended in response.body()
    handler_error,           \* an exception has left ResponseHandler.__call__
    delivered,               \* responses delivered so far
    last,                    \* history: the latest callback step, its request and outcome
    saves,                   \* history: files written by image.save, per hash
    trace,                   \* history: the scroll and pause draws, in order
    iters,                   \* history: iterations completed (line 129 reached)
    zero_only,               \* history: every completed iteration had 0 scrapes
    reached_at,              \* history: iteration in which the target was first met
    clicked,                 \* history: this iteration clicked "Load more results"
    iter_admissions,         \* history: admissions since this iteration began
    zero_run                 \* history: latest consecutive iterations without admission

config == <<number_of_images, patience, seed, min_image_size, max_image_size>>
control == <<pc, error, browser, done, patience_counter, current_scrape_counter, rng>>
store == <<scraped_image_hashes, files>>
history == <<saves, trace, iters, zero_only, reached_at, clicked,
             iter_admissions, zero_run>>
vars == <<config, control, store, in_body, handler_error, delivered, last, history>>

\* The seeds tried: the default of line 66.
Seeds == {42}

\* ------------------------------------------------------- responses, bodies
\* A URL is the sequence of its pieces; the pieces at 2 and 4 are one character.
CdnUrl == <<"https://live", ".", "staticflickr", ".", "com/", "65535/1_b.jpg">>
LookalikeUrl == <<"https://live", "-", "staticflickr", ".", "com/", "1_b.jpg">>
SearchUrl == <<"https://www", ".", "flickr", ".", "com/", "search/">>

\* Response headers are a set of <<name, value>> pairs with distinct names.

\* The responses the page produces: those passing every gate of lines 37-39,
\* those failing exactly one of them, and one failing all.
JpegHeaders == {<<"content-type", "image/jpeg">>}
PngHeaders == {<<"content-type", "image/png">>}
Requests ==
    {[method |-> "GET", url |-> CdnUrl, headers |-> JpegHeaders],
     [method |-> "GET", url |-> LookalikeUrl, headers |-> JpegHeaders],
     [method |-> "POST", url |-> CdnUrl, headers |-> JpegHeaders],
     [method |-> "GET", url |-> SearchUrl, headers |-> JpegHeaders],
     [method |-> "GET", url |-> CdnUrl, headers |-> PngHeaders],
     [method |-> "GET", url |-> CdnUrl, headers |-> {}],
     [method |-> "POST", url |-> SearchUrl, headers |-> PngHeaders]}

\* A body is <<format, width, height>>: format 0 is no image at all, format 1
\* a JPEG stream of the given pixel size, format 3 an image that Image.open
\* reads but image.save cannot write as JPEG (a PNG with an alpha channel
\* served as image/jpeg, or a JPEG cut short after its header).
NotAnImage == <<0, 0, 0>>
Unwritable == <<3, 2, 2>>
Bodies == {NotAnImage, Unwritable}
              \cup {<<1, w, h>> : w \in 1..MaxDim, h \in 1..MaxDim}
NoRequest == [method |-> "", url |-> << >>, headers |-> {}]

\* ---------------------------------------------------------- pure functions
\* re.match(r"https://live.staticflickr.com/.*", url): the match is anchored
\* at the start only, and each "." of the pattern is unescaped, so it stands
\* for any one character but a newline.
RegexMatch(url) ==
    /\ url[1] = "https://live"
    /\ url[2] # "\n"
    /\ url[3] = "staticflickr"
    /\ url[4] # "\n"
    /\ url[5] = "com/"

\* The literal prefix https://live.staticflickr.com/
StartsWithCdnPrefix(url) == SubSeq(url, 1, 5) = SubSeq(CdnUrl, 1, 5)

\* dict.get: the value under the name, None when the name is absent.
HeadersGet(headers, name) ==
    IF \E p \in headers : p[1] = name
    THEN (CHOOSE p \in headers : p[1] = name)[2]
    ELSE "None"

\* line 37
RequestGate(r) == r.method = "GET" /\ RegexMatch(r.url)

ContentTypeGateAlways(r) == TRUE
\* line 39
ContentTypeGate(r) == HeadersGet(r.headers, "content-type") = "image/jpeg"

\* sha256(image_data).hexdigest(): one digest per byte string, no two byte
\* strings of the model sharing one.
Sha256(b) == 1000 + b[1] * (MaxDim + 1) * (MaxDim + 1) + b[2] * (MaxDim + 1) + b[3]
Hashes == {Sha256(b) : b \in Bodies}

\* line 45
FileName(image_hash) == <<image_hash, ".jpg">>

\* Image.open(BytesIO(image_data)) raises on bytes that are no image.
Decodable(b) == b[1] # 0
ImageOpen(b) == [format |-> "JPEG", size |-> <<b[2], b[3]>>]

\* image.save(path): the decoded pixels, encoded again by the library's own
\* JPEG encoder (format 2); the bytes received are not what is written.
ImageSave(image) == <<2, image.size[1], image.size[2]>>

\* image.save raises on an image it cannot encode as JPEG; the library then
\* removes the file it had created, and the exception leaves the callback.
Writable(b) == b[1] # 3

MinOf(size) == IF size[1] <= size[2] THEN size[1] ELSE size[2]
MaxOf(size) == IF size[1] >= size[2] THEN size[1] ELSE size[2]

SizeInRangeWidthOnly(size, lo, hi) == size[1] >= lo /\ size[1] <= hi
\* lines 49-51
SizeInRange(size, lo, hi) == MinOf(size) >= lo /\ MaxOf(size) <= hi

IsNewHashAlways(image_hash, hashes) == TRUE
\* line 44
IsNewHash(image_hash, hashes) == image_hash \notin hashes

\* Lines 43-57, the way a callback ends once it has its body: on a hash
\* already in the set it returns ("duplicate"); Image.open raises on bytes
\* that are no image ("raised"); a decoded image is dropped when its size is
\* out of range ("rejected"); else image.save either raises ("save_failed")
\* or writes the file, after which the hash is inserted ("admitted").
Outcome(b, hashes, lo, hi) ==
    IF ~IsNewHash(Sha256(b), hashes) THEN "duplicate"
    ELSE IF ~Decodable(b) THEN "raised"
    ELSE IF ~SizeInRange(ImageOpen(b).size, lo, hi) THEN "rejected"
    ELSE IF ~Writable(b) THEN "save_failed"
    ELSE "admitted"

OpensImageAlways(outcome) == TRUE
\* Lines 44-47: Image.open is called inside the test of line 44 only.
OpensImage(outcome) == outcome # "duplicate"

AddHashReplacing(hashes, image_hash) == {image_hash}
\* Line 57
AddHash(hashes, image_hash) == hashes \cup {image_hash}

HashesAfterRecordsRejected(outcome, hashes, image_hash) ==
    IF outcome \in {"admitted", "rejected"} THEN AddHash(hashes, image_hash) ELSE hashes
HashesAfterInsertFirst(outcome, hashes, image_hash) ==
    IF outcome \in {"admitted", "save_failed"} THEN AddHash(hashes, image_hash) ELSE hashes
\* Lines 49-57: the insertion is the last statement under the size test, after
\* image.save has returned.
HashesAfter(outcome, hashes, image_hash) ==
    IF outcome = "admitted" THEN AddHash(hashes, image_hash) ELSE hashes

\* lines 29-31
scrape_counter == Cardinality(scraped_image_hashes)

\* The generator of line 80, scaled to 16 states: a full-period congruential
\* step, one step per draw.
RngNext(s) == (5 * s + 3) % 16
DefaultRng(sd) == (7 * sd + 1) % 16
\* rng.random() < 0.75, the draw being RngNext(s) / 16
ScrollsDown(s) == 4 * RngNext(s) < 3 * 16
\* rng.integers(1000, 2000).item()
SleepTime(s) == 1000 + (RngNext(s) * (2000 - 1000)) \div 16

\* ------------------------------------------------------------------- Init
\* main's parameters (lines 60-70) and the state at page.goto (line 94): the
\* handler is constructed (lines 84-86) and subscribed (line 91).  The size
\* limits (128 and 4096 by default) are scaled into the pixel range
\* 1..MaxDim, which keeps sizes below the lower and above the upper limit.
Init ==
    /\ number_of_images \in 0..MaxTarget
    /\ patience \in 0..MaxPatience
    /\ seed \in Seeds
    /\ min_image_size = 2
    /\ max_image_size = 3
    /\ pc = "goto"
    /\ error = "none"
    /\ browser = "open"
    /\ done = FALSE
    /\ patience_counter = 0
    /\ current_scrape_counter = 0
    /\ rng = DefaultRng(seed)
    /\ scraped_image_hashes = {}
    /\ files = {}
    /\ in_body = << >>
    /\ handler_error = FALSE
    /\ delivered = 0
    /\ last = [request |-> NoRequest, outcome |-> "none",
               body_read |-> FALSE, decoded |-> FALSE]
    /\ saves = [h \in Hashes |-> 0]
    /\ trace = << >>
    /\ iters = 0
    /\ zero_only = TRUE
    /\ reached_at = IF 0 >= number_of_images THEN 0 ELSE -1
    /\ clicked = FALSE
    /\ iter_admissions = 0
    /\ zero_run = 0

\* The browser calls of main during which callbacks run.
InLoop == {"wait", "scroll", "query", "click", "pause"}
InCall == {"goto", "close"} \cup InLoop

\* The iteration a loop call belongs to; 0 stands for the navigation.
CurrentIteration == IF pc \in InLoop THEN iters + 1 ELSE 0

Remove(seq, i) == SubSeq(seq, 1, i - 1) \o SubSeq(seq, i + 1, Len(seq))

\* ------------------------------------------------------- ResponseHandler
\* Lines 33-41: the callback starts on a response event.  Failing a gate it
\* returns; passing both it calls response.body() and is suspended there.
HandlerCall(r) ==
    /\ pc \in InCall
    /\ delivered < MaxResponses
    /\ delivered' = delivered + 1
    /\ IF RequestGate(r) /\ ContentTypeGate(r)
       THEN /\ in_body' = Append(in_body, r)
            /\ last' = [request |-> r, outcome |-> "body",
                        body_read |-> TRUE, decoded |-> FALSE]
       ELSE /\ in_body' = in_body
            /\ last' = [request |-> r, outcome |-> "ignored",
                        body_read |-> FALSE, decoded |-> FALSE]
    /\ UNCHANGED <<config, control, store, handler_error, history>>

\* Lines 41-57: response.body() returns b to the i-th suspended callback,
\* which runs to its end.
BodyReturns(i, b) ==
    LET r == in_body[i]
        image_hash == Sha256(b)
        file_name == FileName(image_hash)
        image == ImageOpen(b)
        outcome == Outcome(b, scraped_image_hashes, min_image_size, max_image_size)
        admit == outcome = "admitted"
    IN
    /\ pc \in InCall
    /\ i \in 1..Len(in_body)
    /\ in_body' = Remove(in_body, i)
    /\ last' = [request |-> r, outcome |-> outcome,
                body_read |-> TRUE, decoded |-> OpensImage(outcome)]
    /\ handler_error' = (handler_error \/ outcome \in {"raised", "save_failed"})
    /\ scraped_image_hashes' = HashesAfter(outcome, scraped_image_hashes, image_hash)
    /\ IF admit
       THEN /\ files' = {f \in files : f[1] # file_name}
                            \cup {<<file_name, ImageSave(image)>>}
            /\ saves' = [saves EXCEPT ![image_hash] = @ + 1]
            /\ iter_admissions' = IF pc \in InLoop THEN iter_admissions + 1
                                                   ELSE iter_admissions
       ELSE UNCHANGED <<files, saves, iter_admissions>>
    /\ reached_at' =
         IF reached_at = -1 /\ pc # "close"
            /\ scraped_image_hashes' # scraped_image_hashes
            /\ Cardinality(scraped_image_hashes') >= number_of_images
         THEN CurrentIteration ELSE reached_at
    /\ UNCHANGED <<config, control, delivered, trace, iters, zero_only, clicked, zero_run>>

\* ------------------------------------------------------------------- main
\* An exception leaves main through the with block of line 87, whose exit
\* stops the browser driver.
AbortLeavesBrowserOpen(why) ==
    /\ pc' = "aborted"
    /\ error' = why
    /\ UNCHANGED <<browser, done, patience_counter, current_scrape_counter, rng>>
Abort(why) ==
    /\ pc' = "aborted"
    /\ error' = why
    /\ browser' = "closed"
    /\ UNCHANGED <<done, patience_counter, current_scrape_counter, rng>>

InitialDoneTested ==
    scrape_counter >= number_of_images \/ 0 >= patience
\* Line 96: the loop is entered with done = False, whatever the counts.
InitialDone == FALSE

\* Lines 94-102: page.goto returns; the loop is entered, the counter is
\* snapshot and the network-idle wait begins.
GotoReturns ==
    /\ pc = "goto"
    /\ done' = InitialDone
    /\ pc' = IF done' THEN "close" ELSE "wait"
    /\ patience_counter' = 0
    /\ current_scrape_counter' = scrape_counter
    /\ UNCHANGED <<config, error, browser, rng, store, in_body, handler_error,
                   delivered, last, history>>

\* Line 94: page.goto raises (unreachable, or timeout).
GotoFails ==
    /\ pc = "goto"
    /\ Abort("goto")
    /\ UNCHANGED <<config, store, in_body, handler_error, delivered, last, history>>

\* Lines 102-109: the wait returns; the direction is drawn and the scroll
\* is issued.
WaitReturns ==
    /\ pc = "wait"
    /\ pc' = "scroll"
    /\ rng' = RngNext(rng)
    /\ trace' = Append(trace, <<"scroll", IF ScrollsDown(rng) THEN "down" ELSE "up">>)
    /\ UNCHANGED <<config, error, browser, done, patience_counter, current_scrape_counter,
                   store, in_body, handler_error, delivered, last,
                   saves, iters, zero_only, reached_at, clicked,
                   iter_admissions, zero_run>>

\* Line 102: page.wait_for_load_state raises TimeoutError when the network is
\* not idle within the timeout; nothing catches it.
WaitTimesOut ==
    /\ pc = "wait"
    /\ Abort("networkidle")
    /\ UNCHANGED <<config, store, in_body, handler_error, delivered, last, history>>

\* Lines 106/109-112: page.evaluate returns; the button is looked up.
ScrollReturns ==
    /\ pc = "scroll"
    /\ pc' = "query"
    /\ UNCHANGED <<config, error, browser, done, patience_counter, current_scrape_counter,
                   rng, store, in_body, handler_error, delivered, last, history>>

RngAfterQueryClickDraws(s, did_click) == IF did_click THEN RngNext(s) ELSE s
\* Lines 112-114: looking up and clicking the button draws nothing.
RngAfterQuery(s, did_click) == s

\* Lines 117-119: the pause is drawn and issued.
DrawPause(did_click) ==
    LET s == RngAfterQuery(rng, did_click) IN
    /\ pc' = "pause"
    /\ rng' = RngNext(s)
    /\ trace' = Append(trace, <<"pause", SleepTime(s)>>)
    /\ UNCHANGED <<error, browser, done, patience_counter, current_scrape_counter>>

\* Lines 112-119: query_selector returns; with the button present the click
\* is issued, else the pause.
QueryReturns(present) ==
    /\ pc = "query"
    /\ clicked' = present
    /\ IF present
       THEN /\ pc' = "click"
            /\ UNCHANGED <<error, browser, done, patience_counter,
                           current_scrape_counter, rng, trace>>
       ELSE DrawPause(FALSE)
    /\ UNCHANGED <<config, store, in_body, handler_error, delivered, last,
                   saves, iters, zero_only, reached_at, iter_admissions, zero_run>>

\* Lines 114-119: page.click returns.
ClickReturns ==
    /\ pc = "click"
    /\ DrawPause(TRUE)
    /\ UNCHANGED <<config, store, in_body, handler_error, delivered, last,
                   saves, iters, zero_only, reached_at, clicked,
                   iter_admissions, zero_run>>

NextPatienceNoReset(pcnt, this_loop_scrapes) == pcnt + 1
\* Lines 122-126
NextPatience(pcnt, this_loop_scrapes) ==
    IF this_loop_scrapes = 0 THEN pcnt + 1 ELSE 0

IsDoneTargetOnly(count, target, pcnt, ceiling) == count >= target
IsDonePatienceOnly(count, target, pcnt, ceiling) == pcnt >= ceiling
\* Lines 127-129
IsDone(count, target, pcnt, ceiling) == count >= target \/ pcnt >= ceiling

\* Lines 119-129, then 98-102 or 132: the pause returns; progress is
\* accounted, and the loop repeats or the browser is closed.
PauseReturns ==
    LET this_loop_scrapes == scrape_counter - current_scrape_counter
        pcnt == NextPatience(patience_counter, this_loop_scrapes)
        d == IsDone(scrape_counter, number_of_images, pcnt, patience)
    IN
    /\ pc = "pause"
    /\ patience_counter' = pcnt
    /\ done' = d
    /\ iters' = iters + 1
    /\ zero_only' = (zero_only /\ this_loop_scrapes = 0)
    /\ IF d
       THEN /\ pc' = "close"
            /\ UNCHANGED current_scrape_counter
       ELSE /\ pc' = "wait"
            /\ current_scrape_counter' = scrape_counter
    /\ clicked' = (d /\ clicked)
    /\ zero_run' = IF iter_admissions = 0 THEN zero_run + 1 ELSE 0
    /\ iter_admissions' = 0
    /\ UNCHANGED <<config, error, browser, rng, store, in_body, handler_error,
                   delivered, last, saves, trace, reached_at>>

\* Line 132: browser.close() returns; main ends.
CloseReturns ==
    /\ pc = "close"
    /\ pc' = "exit"
    /\ browser' = "closed"
    /\ UNCHANGED <<config, error, done, patience_counter, current_scrape_counter, rng,
                   store, in_body, handler_error, delivered, last, history>>

\* An exception that left a callback (line 47 on bytes that are no image) was
\* raised inside the browser library's event dispatch; the library may raise
\* it from the browser call main is in, which nothing catches.
HandlerErrorSurfaces ==
    /\ handler_error
    /\ pc \in InCall
    /\ Abort("handler")
    /\ UNCHANGED <<config, store, in_body, handler_error, delivered, last, history>>

Next ==
    \/ \E r \in Requests : HandlerCall(r)
    \/ \E i \in 1..MaxResponses, b \in Bodies : BodyReturns(i, b)
    \/ GotoReturns
    \/ GotoFails
    \/ WaitReturns
    \/ WaitTimesOut
    \/ ScrollReturns
    \/ \E present \in BOOLEAN : QueryReturns(present)
    \/ ClickReturns
    \/ PauseReturns
    \/ CloseReturns
    \/ HandlerErrorSurfaces

Spec == Init /\ [][Next]_vars

\* The steps of main in which the browser call it is in returns: lines 94-132
\* with no call raising.
MainReturns ==
    \/ GotoReturns
    \/ WaitReturns
    \/ ScrollReturns
    \/ \E present \in BOOLEAN : QueryReturns(present)
    \/ ClickReturns
    \/ PauseReturns
    \/ CloseReturns

NextReturning ==
    \/ \E r \in Requests : HandlerCall(r)
    \/ \E i \in 1..MaxResponses, b \in Bodies : BodyReturns(i, b)
    \/ MainReturns

\* A session in which every browser call of main returns: main is one thread
\* of straight-line code between calls, so a step of it that can be taken is
\* taken. Nothing is asked of the callbacks: responses may stop arriving and
\* a body may never come.
ReturningSpec == Init /\ [][NextReturning]_vars /\ WF_vars(MainReturns)

\* ================================================================== claims
MaxOf2(a, b) == IF a >= b THEN a ELSE b

\* C1: however often the same bytes are delivered as qualifying responses,
\* image.save wrote exactly once for their hash, the directory holds exactly one
\* file per admitted hash (no two files share a hash), and scrape_counter
\* counts each admitted hash once.
C1_IdempotentAdmission ==
    /\ \A h \in Hashes : saves[h] = IF h \in scraped_image_hashes THEN 1 ELSE 0
    /\ \A h \in scraped_image_hashes :
          Cardinality({f \in files : f[1] = FileName(h)}) = 1
    /\ Cardinality(files) = scrape_counter

\* The same bytes were delivered twice: the second delivery was found in the
\* hash set, and one file and a count of one are the whole result.
C1_Witness ==
    /\ last.outcome = "duplicate"
    /\ delivered = 2
    /\ scrape_counter = 1
    /\ Cardinality(files) = 1

C3_Original ==
    (done /\ zero_only /\ patience >= 1 /\ number_of_images >= 1) => iters = patience

\* C3 amended: with zero progress in every iteration and the target never
\* met, the loop is not done before max(patience, 1) iterations and is done
\* after exactly that many, whatever the target; when the target is met
\* without progress in any iteration (a target <= 0, or images admitted
\* during the navigation), it is done after the first iteration.
C3_PatienceTermination ==
    /\ (zero_only /\ reached_at = -1 /\ pc \in InLoop) => iters < MaxOf2(patience, 1)
    /\ (zero_only /\ reached_at = -1 /\ done) => iters = MaxOf2(patience, 1)
    /\ (zero_only /\ reached_at = 0 /\ done) => iters = 1

\* Patience ran out at a ceiling of 2 with the target never met.
C3_Witness ==
    /\ done
    /\ zero_only
    /\ reached_at = -1
    /\ patience = 2
    /\ iters = 2

\* C4: once the admitted count has reached the target during iteration K, no
\* iteration after K is begun, and the loop is done with exactly K iterations
\* completed, whether or not the button was present in iteration K.  (This
\* holds for every K, in particular for K below the patience ceiling.)
C4_TargetTermination ==
    reached_at >= 1 =>
        /\ pc \in InLoop => iters < reached_at
        /\ done => iters = reached_at

\* The target was first met in an iteration below the patience ceiling in
\* which the button was absent, and the loop ended with that iteration.
C4_Witness ==
    /\ done
    /\ reached_at >= 1
    /\ reached_at < patience
    /\ iters = reached_at
    /\ ~clicked

\* C5 as stated: no exception leaves ResponseHandler.__call__ and none ends
\* the session.
C5_NoExceptionEscapes ==
    /\ last.outcome # "raised"
    /\ ~handler_error
    /\ error # "handler"

\* C6 as stated: a network-idle wait that times out does not end the session.
C6_WaitTimeoutNonFatal == error # "networkidle"

\* C7: the membership test of line 44 and the insertion of line 57 are one
\* uninterrupted step, also with several callbacks suspended in
\* response.body() at once: image.save runs for a hash only in a step that
\* finds the hash absent and leaves it present, every step adds at most one
\* hash, and scrape_counter, whenever main reads it, is the number of
\* image.save calls made.
C7_AtomicCheckAndInsert ==
    [][/\ \A h \in Hashes :
            saves'[h] # saves[h] =>
                /\ h \notin scraped_image_hashes
                /\ h \in scraped_image_hashes'
                /\ saves'[h] = 1
       /\ Cardinality(scraped_image_hashes' \ scraped_image_hashes) <= 1
       /\ \A h \in scraped_image_hashes' \ scraped_image_hashes : saves'[h] = 1
       /\ current_scrape_counter' # current_scrape_counter =>
            current_scrape_counter' = Cardinality({h \in Hashes : saves[h] = 1})]_vars

\* Two callbacks were in flight at once; one has admitted its bytes while the
\* other is still suspended in response.body().
C7_Witness ==
    /\ Len(in_body) = 1
    /\ last.outcome = "admitted"
    /\ delivered = 2
    /\ scrape_counter = 1

\* C8: a GET response with a matching URL whose content-type is not
\* image/jpeg ends its callback at line 39: no body is requested, no file is
\* written, no hash is inserted, scrape_counter is unchanged; and no callback
\* waiting for a body belongs to such a response.
C8_ContentTypeGate ==
    /\ [](\A i \in 1..Len(in_body) :
            <<"content-type", "image/jpeg">> \in in_body[i].headers)
    /\ [][\A r \in Requests :
            (HandlerCall(r) /\ r.method = "GET" /\ RegexMatch(r.url)
               /\ <<"content-type", "image/jpeg">> \notin r.headers)
            => /\ in_body' = in_body
               /\ scraped_image_hashes' = scraped_image_hashes
               /\ files' = files
               /\ last'.outcome = "ignored"]_vars

\* A GET response from the image host with content-type image/png was
\* delivered and ignored.
C8_Witness ==
    /\ last.outcome = "ignored"
    /\ last.request.method = "GET"
    /\ RegexMatch(last.request.url)
    /\ last.request.headers = PngHeaders

\* C9 as stated: an admitted response was requested with GET from a URL that
\* starts with https://live.staticflickr.com/
C9_MethodUrlGate ==
    last.outcome = "admitted" =>
        /\ last.request.method = "GET"
        /\ StartsWithCdnPrefix(last.request.url)

\* The generator after n draws from the seed.
RECURSIVE RngAfter(_, _)
RngAfter(sd, n) == IF n = 0 THEN DefaultRng(sd) ELSE RngNext(RngAfter(sd, n - 1))

\* The k-th draw of a session: directions at odd k, pauses at even k.
ExpectedDraw(sd, k) ==
    IF k % 2 = 1
    THEN <<"scroll", IF ScrollsDown(RngAfter(sd, k - 1)) THEN "down" ELSE "up">>
    ELSE <<"pause", SleepTime(RngAfter(sd, k - 1))>>

\* C10: the sequence of scroll directions and pause durations is a function of
\* the seed alone, so two runs with one seed agree on it whatever the page
\* does; every completed iteration has drawn one direction and then one
\* pause, and nothing else draws from the generator.
C10_DeterministicPacing ==
    /\ \A k \in 1..Len(trace) : trace[k] = ExpectedDraw(seed, k)
    /\ rng = RngAfter(seed, Len(trace))
    /\ pc \in {"goto", "wait", "close", "exit"} => Len(trace) = 2 * iters
    /\ pc \in {"scroll", "query", "click"} => Len(trace) = 2 * iters + 1
    /\ pc = "pause" => Len(trace) = 2 * iters + 2
    /\ Len(trace) \in {2 * iters, 2 * iters + 1, 2 * iters + 2}

\* Two iterations are complete, the second with a click and an admission
\* behind it.
C10_Witness ==
    /\ iters = 2
    /\ clicked
    /\ scrape_counter >= 1
    /\ Len(trace) = 4

\* C11: a page.goto that fails is fatal: the run is over without the control
\* loop having been entered (no iteration, no draw, no counter snapshot, the
\* loop flag still unset), and the browser is released on that path too; no
\* step follows but callbacks that were already running.
C11_NavigationFailureFatal ==
    /\ [](error = "goto" =>
            /\ pc = "aborted"
            /\ browser = "closed"
            /\ iters = 0 /\ trace = << >> /\ ~done
            /\ patience_counter = 0 /\ current_scrape_counter = 0
            /\ rng = DefaultRng(seed))
    /\ [][error' = "goto" /\ error # "goto" => pc = "goto" /\ browser = "open"]_vars
    /\ [][error = "goto" => UNCHANGED <<control, delivered>>]_vars

C11_Witness ==
    /\ error = "goto"
    /\ browser = "closed"
    /\ delivered >= 1

\* C12: the hash set is insert-only: no step removes a hash, so
\* scrape_counter never decreases and grows by at most one per callback; and
\* the steps of main that read scrape_counter (the snapshot of line 99 after
\* page.goto, lines 121, 127 and 99 at the end of an iteration) leave the
\* hash set and the files as they were.
C12_MonotoneCounter ==
    /\ [][/\ scraped_image_hashes \subseteq scraped_image_hashes'
          /\ Cardinality(scraped_image_hashes') >= scrape_counter
          /\ Cardinality(scraped_image_hashes') <= scrape_counter + 1]_vars
    /\ [][(pc \in {"goto", "pause"} /\ pc' \notin {pc, "aborted"}) =>
            /\ store' = store
            /\ pc' = "wait" => current_scrape_counter' = scrape_counter]_vars

C12_Witness ==
    /\ scrape_counter = 2
    /\ current_scrape_counter = 1
    /\ iters >= 1

\* C13: when every browser call returns, the session terminates: the control
\* loop reaches Done and the browser is closed, whatever the target, the
\* patience ceiling and the responses. The reason is a measure that falls:
\* every iteration that is followed by another either raised the admitted
\* count or raised the patience counter by one, and an iteration after the
\* first is begun only with the count below the target and the patience
\* counter below the ceiling.
C13_Termination ==
    /\ <>(done /\ pc = "exit" /\ browser = "closed")
    /\ [][(pc = "pause" /\ pc' = "wait") =>
            \/ current_scrape_counter' > current_scrape_counter
            \/ /\ current_scrape_counter' = current_scrape_counter
               /\ patience_counter' = patience_counter + 1]_vars
    /\ []((pc \in InLoop /\ iters >= 1) =>
            /\ current_scrape_counter < number_of_images
            /\ patience_counter < patience)

C13_Witness ==
    /\ done /\ pc = "exit"
    /\ iters >= 2
    /\ ~zero_only
    /\ patience_counter = 0

\* C14: the end of an iteration sets Done if and only if the admitted count
\* read there has reached the target or the patience counter, after this
\* iteration's accounting, has reached the ceiling; otherwise the next
\* iteration begins. Done is terminal: it is never unset, no wait, scroll,
\* query, click or pause follows it, only browser.close(), and the browser
\* goes from open to closed once and stays closed.
C14_DoneExactlyWhenDue ==
    /\ [][(pc = "pause" /\ pc' \notin {"pause", "aborted"}) =>
            /\ done' <=> (\/ scrape_counter >= number_of_images
                          \/ patience_counter' >= patience)
            /\ pc' = IF done' THEN "close" ELSE "wait"]_vars
    /\ [](done => pc \in {"close", "exit", "aborted"})
    /\ [](pc \in {"close", "exit"} => done)
    /\ [](pc = "close" => browser = "open")
    /\ [](pc = "exit" => browser = "closed")
    /\ [][done => (done' /\ trace' = trace /\ iters' = iters /\ rng' = rng)]_vars
    /\ [][browser = "closed" => UNCHANGED <<control, store, delivered>>]_vars

C14_Witness ==
    /\ done /\ pc = "exit"
    /\ browser = "closed"
    /\ error = "none"
    /\ scrape_counter < number_of_images
    /\ patience_counter = patience
    /\ patience >= 2

\* C15: the patience counter starts at 0 and, after every iteration, is the
\* number of the latest consecutive iterations in which nothing was admitted:
\* an iteration without admission raised it by one, an iteration with an
\* admission set it to 0. The progress of an iteration, the difference of
\* the counter and the snapshot taken when the iteration began, is the
\* number of admissions made since that snapshot, no more and no less.
C15_PatienceAccounting ==
    /\ [](patience_counter = zero_run)
    /\ [](pc = "goto" => patience_counter = 0)
    /\ [](pc \in InLoop =>
            scrape_counter - current_scrape_counter = iter_admissions)
    /\ [][(pc = "pause" /\ pc' \notin {"pause", "aborted"}) =>
            patience_counter' = IF iter_admissions = 0
                                THEN patience_counter + 1 ELSE 0]_vars

C15_Witness ==
    /\ iters >= 2
    /\ patience_counter = 0
    /\ zero_run = 0
    /\ scrape_counter = 1
    /\ reached_at = 2

\* C16: a callback that ends without admitting, because of a method other
\* than GET, a URL off the image CDN, a content type other than image/jpeg, a
\* hash already in the set or a size out of range, leaves the hash set, the
\* counter, the files and the control loop's variables exactly as they
\* were; in particular the hash of an out-of-range image is never in the set.
\* A callback that ends in an exception leaves no hash and no file either.
C16_RejectionLeavesNoTrace ==
    /\ [][(/\ delivered' # delivered \/ Len(in_body') < Len(in_body)
           /\ last'.outcome \in {"ignored", "duplicate", "rejected"}) =>
            /\ scraped_image_hashes' = scraped_image_hashes
            /\ files' = files
            /\ saves' = saves
            /\ control' = control
            /\ handler_error' = handler_error]_vars
    /\ [][last'.outcome \in {"raised", "save_failed"} => store' = store]_vars
    /\ [](\A w \in 1..MaxDim, h \in 1..MaxDim :
            (w < min_image_size \/ h < min_image_size
               \/ w > max_image_size \/ h > max_image_size)
            => /\ Sha256(<<1, w, h>>) \notin scraped_image_hashes
               /\ \A f \in files : f[1] # FileName(Sha256(<<1, w, h>>)))

C16_Witness ==
    /\ last.outcome = "rejected"
    /\ scrape_counter = 1
    /\ Cardinality(files) = 1
    /\ pc \in InLoop
    /\ current_scrape_counter = 1

\* C17: response.body() is called only in a callback whose request passed the
\* method test, the URL test and the content-type test, once in that
\* callback; a callback whose request fails one of the three ends without
\* reading the body; and Image.open is called only on a body that was read
\* and whose hash the duplicate test found new.
C17_CheapestFirst ==
    /\ [](last.body_read =>
            /\ last.request.method = "GET"
            /\ RegexMatch(last.request.url)
            /\ <<"content-type", "image/jpeg">> \in last.request.headers)
    /\ [](\A i \in 1..Len(in_body) :
            /\ in_body[i].method = "GET"
            /\ RegexMatch(in_body[i].url)
            /\ <<"content-type", "image/jpeg">> \in in_body[i].headers)
    /\ [](last.outcome = "ignored" => ~last.body_read /\ ~last.decoded)
    /\ [](last.decoded => last.body_read /\ last.outcome # "duplicate")
    /\ [](last.outcome \in {"body", "duplicate"} => ~last.decoded)
    /\ [][delivered' # delivered =>
            Len(in_body') = Len(in_body) + (IF last'.body_read THEN 1 ELSE 0)]_vars
    /\ [][Len(in_body') < Len(in_body) =>
            (delivered' = delivered /\ Len(in_body') = Len(in_body) - 1)]_vars

C17_Witness ==
    /\ last.outcome = "duplicate"
    /\ last.body_read
    /\ ~last.decoded
    /\ scrape_counter = 1
    /\ Len(in_body) = 0

\* C18 as stated: every file written holds exactly the bytes of a response
\* received, and the SHA-256 digest of its content is its filename stem.
C18_RawBytesPersisted ==
    \A f \in files :
        /\ f[2] \in Bodies
        /\ f[1] = FileName(Sha256(f[2]))

\* C19: in every state, and so whenever no callback is running, the files
\* written are exactly h.jpg for the hashes h in the set, one file per hash,
\* so scrape_counter is the number of files. The file is written before the
\* hash is inserted: a callback whose image.save fails ends with neither a
\* file nor a hash, so no hash is ever counted that has no file.
C19_FilesMatchHashes ==
    /\ []({f[1] : f \in files} = {FileName(h) : h \in scraped_image_hashes})
    /\ [](Cardinality(files) = scrape_counter)
    /\ [](\A b \in Bodies : ~Writable(b) => Sha256(b) \notin scraped_image_hashes)
    /\ [][last'.outcome = "save_failed" =>
            (files' = files /\ scraped_image_hashes' = scraped_image_hashes)]_vars

C19_Witness ==
    /\ last.outcome = "save_failed"
    /\ Len(in_body) = 0
    /\ scrape_counter = 1
    /\ Cardinality(files) = 1

\* C20: the loop tests its condition only at the end of an iteration: once
\* page.goto has returned, Done is not reached before one whole iteration
\* (wait, scroll draw and scroll, button query, pause draw and pause), also
\* with the target met during navigation, a target <= 0 or a patience <= 0;
\* and an iteration after the first begins only when the test before it
\* found the count below the target and the patience counter below the
\* ceiling.
C20_AtLeastOneIteration ==
    /\ [](done => (iters >= 1 /\ Len(trace) = 2 * iters))
    /\ [](pc = "wait" /\ iters = 0 => ~done /\ trace = << >>)
    /\ [][(pc = "goto" /\ pc' \notin {"goto", "aborted"}) => (pc' = "wait" /\ ~done')]_vars
    /\ [][done' /\ ~done => (pc = "pause" /\ iters' = iters + 1)]_vars
    /\ [][(pc = "pause" /\ pc' = "wait") =>
            /\ scrape_counter < number_of_images
            /\ patience_counter' < patience
            /\ current_scrape_counter' = scrape_counter]_vars

C20_Witness ==
    /\ done
    /\ iters = 1
    /\ reached_at = 0
    /\ number_of_images >= 1
    /\ patience >= 1
    /\ Len(trace) = 2

====
